---- MODULE Spec2Model ----
(***************************************************************************)
(* Model of pymobiledevice3/__main__.py: the top-level dispatcher main(),  *)
(* which runs the click entry point cli() and translates a closed set of   *)
(* exceptions into log messages, retrying over tunneld for two of them,    *)
(* and the lazily resolved command groups (Pmd3Cli) registered under cli.  *)
(***************************************************************************)
EXTENDS Integers, Sequences, FiniteSets, TLC

(* ---------------------------------------------------------------------- *)
(* Bounds                                                                   *)
(* ---------------------------------------------------------------------- *)

\* Number of nested main() frames the interpreter allows before cli() fails
\* with RecursionError (sys.getrecursionlimit(), scaled down).
RecursionLimit == 2

\* Number of get_command/list_commands calls the threads of a host make.
MaxCalls == 3

(* ---------------------------------------------------------------------- *)
(* Values                                                                   *)
(* ---------------------------------------------------------------------- *)

\* Python's None, as the value of an exception field that was not set.
None == "<None>"

Prog == "pymobiledevice3"

\* Identifier values an exception can carry (a udid string, possibly empty).
Identifiers == {"UDID1", "ABCD-1234", ""}

IdValues == Identifiers \cup {None}

\* Values of the identifier field of an RSDRequiredError: the field is
\* optional on a failure record.
RsdIdValues == IdValues

INVALID_SERVICE_MESSAGE == "Failed to start service. Possible reasons are: ..."

\* Exception classes caught by the except clauses of main().
ReportKinds ==
    { "NoDeviceConnectedError", "ConnectionAbortedError", "NotPairedError",
      "UserDeniedPairingError", "PairingDialogResponsePendingError",
      "SetProhibitedError", "MissingValueError", "DeviceHasPasscodeSetError",
      "DeveloperModeError", "ConnectionFailedToUsbmuxdError",
      "MessageNotSupportedError", "InternalError",
      "DeveloperModeIsNotEnabledError", "PasswordRequiredError",
      "AccessDeniedError", "TunneldConnectionError", "DeviceNotFoundError",
      "NotEnoughDiskSpaceError", "DeprecationError", "OSNotSupportedError",
      "FeatureNotSupportedError" }

\* Exception classes cli() can raise that no except clause of main() names.
OtherKinds == {"RecursionError", "KeyError", "ImportError", "AttributeError"}

Kinds ==
    ReportKinds \cup OtherKinds \cup
    {"InvalidServiceError", "RSDRequiredError", "NoDeviceSelectedError", "BrokenPipeError"}

\* The exception instance: its class and the fields main() reads from it.
Exc(k, id, info) == [kind |-> k, identifier |-> id, info |-> info]

NoExc == Exc("-", None, "-")

\* Instances cli() can raise: identifier is read for InvalidServiceError and
\* RSDRequiredError; info stands for str(e), e.udid, e.os_name / e.feature.
Exceptions ==
    { Exc("InvalidServiceError", id, "-") : id \in IdValues }
    \cup { Exc("RSDRequiredError", id, "-") : id \in RsdIdValues }
    \cup { Exc(k, None, i) : k \in {"DeveloperModeError", "DeviceNotFoundError",
                                     "OSNotSupportedError", "FeatureNotSupportedError"},
                             i \in {"a", "b"} }
    \cup { Exc(k, None, "-") : k \in Kinds \ {"InvalidServiceError", "RSDRequiredError",
                                     "DeveloperModeError", "DeviceNotFoundError",
                                     "OSNotSupportedError", "FeatureNotSupportedError",
                                     "RecursionError", "ImportError", "AttributeError"} }

\* Command paths (group and subcommand tokens) and argument lists of the
\* command lines the dispatcher is started with.
Paths ==
    { <<"developer", "dvt", "ls">>, <<"afc", "ls">>, <<"lockdown", "info">>,
      <<"developer", "ls">>, <<"pcap", "ls">> }

Args == { <<>>, <<"developer">>, <<"--tunnel", "UDID1">>, <<"/tmp">> }

(* ---------------------------------------------------------------------- *)
(* Registry and command groups                                              *)
(* ---------------------------------------------------------------------- *)

\* A string that the code splits, as its sequence of segments; ":" is the
\* separator segment.
Str(module, attr) == <<module, ":", attr>>

\* The live entries of CLI_GROUPS (three of them), in registration order;
\* 'pcap' is commented out of the table.
GroupNames == <<"afc", "developer", "lockdown">>

Groups == {GroupNames[i] : i \in DOMAIN GroupNames}

\* ClickGroup(import_group, short_help) of each entry.
CLI_GROUPS ==
    [ afc |-> [import_group |-> Str("afc", "afc"), short_help |-> "FileSystem utils"],
      developer |-> [import_group |-> Str("developer", "developer"), short_help |-> "developer options"],
      lockdown |-> [import_group |-> Str("lockdown", "lockdown_group"), short_help |-> "lockdown options"] ]

\* import_name given to Pmd3Cli by _create_click_group:
\* f'pymobiledevice3.cli.{group.import_group}'
ImportName(g) == <<"pymobiledevice3.cli.">> \o CLI_GROUPS[g].import_group

\* s.split(":", 1): the segments before the first ":" and those after it.
Split(s) ==
    LET i == CHOOSE k \in DOMAIN s : s[k] = ":" /\ \A j \in 1..(k - 1) : s[j] # ":"
    IN <<SubSeq(s, 1, i - 1), SubSeq(s, i + 1, Len(s))>>

ModuleOf(g) == Split(ImportName(g))[1]

AttrOf(g) == Split(ImportName(g))[2]

Modules == {ModuleOf(g) : g \in Groups}

\* The command table (click.Group.commands) of the group object each module
\* defines.
ImplCommands ==
    [ afc |-> {"ls", "pull"}, developer |-> {"dvt"}, lockdown |-> {"info", "pair"} ]

\* What importing a module and reading the attribute can do in a process.
ModStatus == {"ok", "import_error", "no_attr"}

\* Environments: every module importable with its attribute, or the lockdown
\* module failing to import, or the developer module lacking the attribute.
Environments ==
    { [m \in Modules |-> "ok"],
      [m \in Modules |-> IF m = ModuleOf("lockdown") THEN "import_error" ELSE "ok"],
      [m \in Modules |-> IF m = ModuleOf("developer") THEN "no_attr" ELSE "ok"] }

\* The cached_property slot of an instance that has no value yet.
NotFound == [module |-> <<>>, name |-> <<>>, gen |-> 0]

\* The object getattr(module, name) returns; gen is the execution of the
\* module body that created it.
Ref(m, n, gen) == [module |-> m, name |-> n, gen |-> gen]

\* A command a group does not have (click.Group.get_command returns None).
Absent == "<absent>"

\* Threads of a host that embeds the command groups.
Threads == {"t1", "t2"}

NoThread == "-"

\* Command names a host asks a group for.
CmdNames == {"ls", "dvt"}

\* A thread that is not inside a call, and what its last call gave.
IdleCall ==
    [pc |-> "idle", g |-> "-", op |-> "-", name |-> "-", val |-> NotFound,
     err |-> "-", cmd |-> "-", names |-> {}]

(* ---------------------------------------------------------------------- *)
(* State                                                                    *)
(* ---------------------------------------------------------------------- *)

VARIABLES
    argv,        \* sys.argv
    argv0,       \* sys.argv as it was when the top-level main() was called
    pathLen,     \* number of tokens after argv[0] that name the command
    state,       \* "Running": in cli(); "Raised": exception in main's try; "Done"
    exc,         \* the exception raised by the last cli() call
    depth,       \* number of main() frames below the current one
    log,         \* records emitted through logger, in order
    tracebacks,  \* number of traceback.print_exc() calls
    outcome,     \* how the top-level main() ended
    executed,    \* number of command callbacks cli() invoked
    modStatus,   \* per module: importable with the attribute, or how it fails
    cache,       \* per group: the _impg slot of its Pmd3Cli instance
    sysModules,  \* sys.modules: the modules imported so far
    loads,       \* per module: number of executions of the module body
    getterRuns,  \* per group: number of runs of the _impg getter body
    calls,       \* per group: number of get_command/list_commands calls
    tcall,       \* per thread: the call it is in and where it stands in it
    locking,     \* whether functools.cached_property runs the getter under its lock
    lock,        \* the thread holding the lock of the _impg descriptor
    observed,    \* per group: the values self._impg has returned to calls
    listing      \* the last enumeration of the groups registered under cli

dispVars == <<argv, argv0, pathLen, state, exc, depth, log, tracebacks, outcome, executed>>

provVars == <<cache, sysModules, loads, getterRuns, calls>>

hostVars == <<tcall, locking, lock, observed, listing>>

vars == <<dispVars, modStatus, provVars, hostVars>>

(* ---------------------------------------------------------------------- *)
(* Helpers translated from main()                                           *)
(* ---------------------------------------------------------------------- *)

\* x in sys.argv
InArgv(x, a) == \E i \in DOMAIN a : a[i] = x

Error(msg, arg) == [level |-> "error", msg |-> msg, arg |-> arg]

Warning(msg) == [level |-> "warning", msg |-> msg, arg |-> "-"]

\* The logger.error call of each reporting except clause.
Message(e) ==
    CASE e.kind = "NoDeviceConnectedError" -> Error("Device is not connected", "-")
      [] e.kind = "ConnectionAbortedError" -> Error("Device was disconnected", "-")
      [] e.kind = "NotPairedError" -> Error("Device is not paired", "-")
      [] e.kind = "UserDeniedPairingError" -> Error("User refused to trust this computer", "-")
      [] e.kind = "PairingDialogResponsePendingError" -> Error("Waiting for user dialog approval", "-")
      [] e.kind = "SetProhibitedError" -> Error("lockdownd denied the access", "-")
      [] e.kind = "MissingValueError" -> Error("No such value", "-")
      [] e.kind = "DeviceHasPasscodeSetError" -> Error("Cannot enable developer-mode when passcode is set", "-")
      [] e.kind = "DeveloperModeError" -> Error("Failed to enable developer-mode. Error: {e}", e.info)
      [] e.kind = "ConnectionFailedToUsbmuxdError" -> Error("Failed to connect to usbmuxd socket. Make sure it is running.", "-")
      [] e.kind = "MessageNotSupportedError" -> Error("Message not supported for this iOS version", "-")
      [] e.kind = "InternalError" -> Error("Internal Error", "-")
      [] e.kind = "DeveloperModeIsNotEnabledError" -> Error("Developer Mode is disabled. You can try to enable it using: python3 -m pymobiledevice3 amfi enable-developer-mode", "-")
      [] e.kind = "PasswordRequiredError" -> Error("Device is password protected. Please unlock and retry", "-")
      [] e.kind = "AccessDeniedError" -> Error("get_os_utils().access_denied_error", "-")
      [] e.kind = "TunneldConnectionError" -> Error("Unable to connect to Tunneld. You can start one using: sudo python3 -m pymobiledevice3 remote tunneld", "-")
      [] e.kind = "DeviceNotFoundError" -> Error("Device not found: {e.udid}", e.info)
      [] e.kind = "NotEnoughDiskSpaceError" -> Error("Not enough disk space", "-")
      [] e.kind = "DeprecationError" -> Error("failed to query MobileGestalt, MobileGestalt deprecated (iOS >= 17.4).", "-")
      [] e.kind = "OSNotSupportedError" -> Error("Unsupported OS - {e.os_name}. To add support, consider contributing at https://github.com/doronz88/pymobiledevice3.", e.info)
      [] e.kind = "FeatureNotSupportedError" -> Error("Missing implementation of {e.feature} on {e.os_name}. To add support, consider contributing at https://github.com/doronz88/pymobiledevice3.", e.info)

\* The except clauses of main(), in source order: the classes each names and
\* what its body does.
ExceptClauses ==
    << [types |-> {"NoDeviceConnectedError"}, does |-> "report"],
       [types |-> {"ConnectionAbortedError"}, does |-> "report"],
       [types |-> {"NotPairedError"}, does |-> "report"],
       [types |-> {"UserDeniedPairingError"}, does |-> "report"],
       [types |-> {"PairingDialogResponsePendingError"}, does |-> "report"],
       [types |-> {"SetProhibitedError"}, does |-> "report"],
       [types |-> {"MissingValueError"}, does |-> "report"],
       [types |-> {"DeviceHasPasscodeSetError"}, does |-> "report"],
       [types |-> {"DeveloperModeError"}, does |-> "report"],
       [types |-> {"ConnectionFailedToUsbmuxdError"}, does |-> "report"],
       [types |-> {"MessageNotSupportedError"}, does |-> "report+traceback"],
       [types |-> {"InternalError"}, does |-> "report"],
       [types |-> {"DeveloperModeIsNotEnabledError"}, does |-> "report"],
       [types |-> {"InvalidServiceError", "RSDRequiredError"}, does |-> "retry"],
       [types |-> {"NoDeviceSelectedError"}, does |-> "return"],
       [types |-> {"PasswordRequiredError"}, does |-> "report"],
       [types |-> {"AccessDeniedError"}, does |-> "report"],
       [types |-> {"BrokenPipeError"}, does |-> "traceback"],
       [types |-> {"TunneldConnectionError"}, does |-> "report"],
       [types |-> {"DeviceNotFoundError"}, does |-> "report"],
       [types |-> {"NotEnoughDiskSpaceError"}, does |-> "report"],
       [types |-> {"DeprecationError"}, does |-> "report"],
       [types |-> {"OSNotSupportedError"}, does |-> "report"],
       [types |-> {"FeatureNotSupportedError"}, does |-> "report"] >>

\* try/except matching: the body of the first clause naming the class, or
\* "propagate" when no clause names it.
MatchClause(k, clauses) ==
    IF \E i \in DOMAIN clauses : k \in clauses[i].types
    THEN LET first == CHOOSE i \in DOMAIN clauses :
                         /\ k \in clauses[i].types
                         /\ \A j \in DOMAIN clauses : k \in clauses[j].types => i <= j
         IN clauses[first].does
    ELSE "propagate"

\* The clauses with every clause naming class k removed.
WithoutClause(clauses, k) == SelectSeq(clauses, LAMBDA c : k \notin c.types)

\* Variant: the PairingDialogResponsePendingError clause waits for the dialog.
HandlerWaitsForDialog(k) ==
    IF k = "PairingDialogResponsePendingError" THEN "wait" ELSE MatchClause(k, ExceptClauses)

\* Variant: no clause for NoDeviceSelectedError.
HandlerNoDeviceSelectedUncaught(k) ==
    MatchClause(k, WithoutClause(ExceptClauses, "NoDeviceSelectedError"))

\* Variant: no clause for DeviceNotFoundError.
HandlerDeviceNotFoundUncaught(k) ==
    MatchClause(k, WithoutClause(ExceptClauses, "DeviceNotFoundError"))

\* Variant: a trailing catch-all clause that returns.
HandlerCatchAll(k) ==
    MatchClause(k, Append(ExceptClauses, [types |-> Kinds, does |-> "return"]))

\* Variant: a clause that swallows a failed import of a command group.
HandlerImportErrorCaught(k) ==
    MatchClause(k, Append(ExceptClauses,
                          [types |-> {"ImportError", "AttributeError"}, does |-> "return"]))

Handler(k) == MatchClause(k, ExceptClauses)

\* Variant: no isinstance(e, RSDRequiredError) branch.
ShouldRetryNoRsdBranch(e, a) ==
    /\ e.identifier # None
    /\ InArgv("developer", a)
    /\ ~InArgv("--tunnel", a)

\* Variant: the 'developer' in sys.argv test is missing.
ShouldRetryNoDeveloperCheck(e, a) ==
    IF e.kind = "RSDRequiredError"
    THEN TRUE
    ELSE /\ e.identifier # None
         /\ ~InArgv("--tunnel", a)

\* Variant: the '--tunnel' not in sys.argv test is missing.
ShouldRetryNoTunnelCheck(e, a) ==
    IF e.kind = "RSDRequiredError"
    THEN TRUE
    ELSE /\ e.identifier # None
         /\ InArgv("developer", a)

\* should_retry_over_tunneld as computed at the top of the retry clause.
ShouldRetryOverTunneld(e, a) ==
    IF e.kind = "RSDRequiredError"
    THEN TRUE
    ELSE /\ e.identifier # None
         /\ InArgv("developer", a)
         /\ ~InArgv("--tunnel", a)

\* The logger.warning emitted by the branch that sets should_retry_over_tunneld.
RetryWarning(e) ==
    IF e.kind = "RSDRequiredError"
    THEN Warning("Trying again over tunneld since RSD is required for this command")
    ELSE Warning("Trying again over tunneld since it is a developer command")

\* Variant: the flag and its value appended in the wrong order.
RetryArgvSwapped(a, e) == a \o <<e.identifier, "--tunnel">>

\* Variant: the flag and its value inserted right after argv[0].
RetryArgvInserted(a, e) == <<a[1], "--tunnel", e.identifier>> \o Tail(a)

\* sys.argv += ['--tunnel', e.identifier]
RetryArgv(a, e) == a \o <<"--tunnel", e.identifier>>

(* ---------------------------------------------------------------------- *)
(* Helpers translated from Pmd3Cli                                          *)
(* ---------------------------------------------------------------------- *)

\* importlib.import_module(m): a module in sys.modules is returned as is;
\* otherwise its body is executed and, unless that fails, it is entered
\* into sys.modules.
ImportModule(m, sm, ld, st) ==
    IF m \in sm
    THEN [ok |-> TRUE, sysModules |-> sm, loads |-> ld]
    ELSE IF st[m] = "import_error"
         THEN [ok |-> FALSE, sysModules |-> sm, loads |-> [ld EXCEPT ![m] = @ + 1]]
         ELSE [ok |-> TRUE, sysModules |-> sm \cup {m}, loads |-> [ld EXCEPT ![m] = @ + 1]]

\* The body of Pmd3Cli._impg: split the import name, import the module and
\* read the attribute (both done twice; the timing prints are left out).
ImpgBody(g, sm, ld, st) ==
    LET module == Split(ImportName(g))[1]
        name == Split(ImportName(g))[2]
        first == ImportModule(module, sm, ld, st)
        second == ImportModule(module, first.sysModules, first.loads, st)
    IN IF ~first.ok
       THEN [err |-> "ImportError", val |-> NotFound,
             sysModules |-> first.sysModules, loads |-> first.loads]
       ELSE IF st[module] = "no_attr"
            THEN [err |-> "AttributeError", val |-> NotFound,
                  sysModules |-> first.sysModules, loads |-> first.loads]
            ELSE [err |-> "-", val |-> Ref(module, name, second.loads[module]),
                  sysModules |-> second.sysModules, loads |-> second.loads]

\* Variant: a plain property, which stores nothing.
CacheAfterGetNotStored(c, g, val) == c

\* Variant: one slot shared by all instances of the class.
CacheAfterGetShared(c, g, val) == [h \in DOMAIN c |-> val]

\* functools.cached_property: the value the getter returned is stored in
\* the slot of the instance, and only of that instance.
CacheAfterGet(c, g, val) == [c EXCEPT ![g] = val]

\* Variant: a getter that failed leaves a partial implementation in the slot.
CacheAfterFailureStored(c, g, err) == [c EXCEPT ![g] = Ref(ModuleOf(g), AttrOf(g), 0)]

\* A getter that raised stores nothing.
CacheAfterFailure(c, g, err) == c

\* self._impg evaluated with no other thread running: a populated slot is
\* returned, otherwise the getter runs and its value is stored.
AccessImpg(g, c, sm, ld, gr, st) ==
    IF c[g] # NotFound
    THEN [err |-> "-", val |-> c[g], cache |-> c, sysModules |-> sm, loads |-> ld,
          getterRuns |-> gr]
    ELSE LET b == ImpgBody(g, sm, ld, st)
         IN [err |-> b.err, val |-> b.val,
             cache |-> IF b.err = "-" THEN CacheAfterGet(c, g, b.val)
                       ELSE CacheAfterFailure(c, g, b.err),
             sysModules |-> b.sysModules, loads |-> b.loads,
             getterRuns |-> [gr EXCEPT ![g] = @ + 1]]

\* The group object a reference denotes, by the module that defines it.
GroupOfRef(r) == CHOOSE g \in Groups : ModuleOf(g) = r.module

\* Variant: a name that is not found yields the first command of the group.
GetCommandWithFallback(r, cmd_name) ==
    IF cmd_name \in ImplCommands[GroupOfRef(r)]
    THEN cmd_name
    ELSE CHOOSE n \in ImplCommands[GroupOfRef(r)] : TRUE

\* Pmd3Cli.get_command: self._impg.get_command(ctx, cmd_name), which is
\* click's lookup of cmd_name in the command table of the group.
GetCommand(r, cmd_name) ==
    IF cmd_name \in ImplCommands[GroupOfRef(r)] THEN cmd_name ELSE Absent

\* Pmd3Cli.list_commands: self._impg.list_commands(ctx).
ListCommands(r) == ImplCommands[GroupOfRef(r)]

\* cli() parsing sys.argv: the group token is looked up among the groups
\* registered under cli, then the subcommand token through get_command of
\* that group's Pmd3Cli instance.
ParseGroup(a, c, sm, ld, gr, cl, st) ==
    LET r == AccessImpg(a[2], c, sm, ld, gr, st)
    IN [res |-> IF r.err # "-" THEN "load_error"
                ELSE IF GetCommand(r.val, a[3]) = Absent THEN "usage" ELSE "ok",
        err |-> r.err, cache |-> r.cache, sysModules |-> r.sysModules,
        loads |-> r.loads, getterRuns |-> r.getterRuns,
        calls |-> [cl EXCEPT ![a[2]] = @ + 1]]

\* Variant: a name that is not registered is served by the first group.
CliParseUnknownServedByFirst(a, c, sm, ld, gr, cl, st) ==
    ParseGroup(IF a[2] \in Groups THEN a ELSE [a EXCEPT ![2] = GroupNames[1]],
               c, sm, ld, gr, cl, st)

CliParse(a, c, sm, ld, gr, cl, st) ==
    IF a[2] \notin Groups
    THEN [res |-> "usage", err |-> "-", cache |-> c, sysModules |-> sm, loads |-> ld,
          getterRuns |-> gr, calls |-> cl]
    ELSE ParseGroup(a, c, sm, ld, gr, cl, st)

Parsed == CliParse(argv, cache, sysModules, loads, getterRuns, calls, modStatus)

\* The effect of parsing on the groups.
ParseEffect(p) ==
    /\ cache' = p.cache
    /\ sysModules' = p.sysModules
    /\ loads' = p.loads
    /\ getterRuns' = p.getterRuns
    /\ calls' = p.calls

(* ---------------------------------------------------------------------- *)
(* Initial state and actions                                                *)
(* ---------------------------------------------------------------------- *)

\* The module as imported: one Pmd3Cli per entry of CLI_GROUPS, none of
\* them resolved.
GroupsInit ==
    /\ modStatus \in Environments
    /\ cache = [g \in Groups |-> NotFound]
    /\ sysModules = {}
    /\ loads = [m \in Modules |-> 0]
    /\ getterRuns = [g \in Groups |-> 0]
    /\ calls = [g \in Groups |-> 0]

\* No host thread has called into a group.
HostInit ==
    /\ tcall = [t \in Threads |-> IdleCall]
    /\ lock = NoThread
    /\ observed = [g \in Groups |-> {}]
    /\ listing = <<>>

Init ==
    /\ GroupsInit
    /\ HostInit
    /\ locking = FALSE
    /\ executed = 0
    /\ \E p \in Paths, x \in Args :
          /\ argv = <<Prog>> \o p \o x
          /\ pathLen = Len(p)
    /\ argv0 = argv
    /\ state = "Running"
    /\ exc = NoExc
    /\ depth = 0
    /\ log = <<>>
    /\ tracebacks = 0
    /\ outcome = "-"

\* cli() runs the command to completion.
CliSucceeds ==
    /\ state = "Running"
    /\ depth < RecursionLimit
    /\ \E p \in {Parsed} :
          /\ p.res = "ok"
          /\ ParseEffect(p)
          /\ executed' = executed + 1
          /\ state' = "Done"
          /\ outcome' = "success"
          /\ UNCHANGED <<argv, argv0, pathLen, exc, depth, log, tracebacks, modStatus>>
          /\ UNCHANGED hostVars

\* cli() raises an exception out of the command.
CliRaises ==
    /\ state = "Running"
    /\ depth < RecursionLimit
    /\ \E p \in {Parsed} :
          /\ p.res = "ok"
          /\ ParseEffect(p)
          /\ executed' = executed + 1
          /\ \E e \in Exceptions : exc' = e
          /\ state' = "Raised"
          /\ UNCHANGED <<argv, argv0, pathLen, depth, log, tracebacks, outcome, modStatus>>
          /\ UNCHANGED hostVars

\* cli() finds no such group, or the group has no such command: click
\* reports the usage error itself and exits the process with status 2.
CliUsageError ==
    /\ state = "Running"
    /\ depth < RecursionLimit
    /\ \E p \in {Parsed} :
          /\ p.res = "usage"
          /\ ParseEffect(p)
          /\ state' = "Done"
          /\ outcome' = "usage_error"
          /\ UNCHANGED <<argv, argv0, pathLen, exc, depth, log, tracebacks, executed, modStatus>>
          /\ UNCHANGED hostVars

\* cli() resolving the group: the _impg getter raises ImportError or
\* AttributeError, which click lets through.
CliLoadError ==
    /\ state = "Running"
    /\ depth < RecursionLimit
    /\ \E p \in {Parsed} :
          /\ p.res = "load_error"
          /\ ParseEffect(p)
          /\ exc' = Exc(p.err, None, "-")
          /\ state' = "Raised"
          /\ UNCHANGED <<argv, argv0, pathLen, depth, log, tracebacks, outcome, executed, modStatus>>
          /\ UNCHANGED hostVars

\* cli() called with the stack used up by nested main() frames.
CliRecursionError ==
    /\ state = "Running"
    /\ depth >= RecursionLimit
    /\ exc' = Exc("RecursionError", None, "-")
    /\ state' = "Raised"
    /\ UNCHANGED <<argv, argv0, pathLen, depth, log, tracebacks, outcome, executed>>
    /\ UNCHANGED <<modStatus, provVars>>
    /\ UNCHANGED hostVars

\* An except clause whose body is one logger.error call (one of them also
\* prints the traceback); main() then returns.
ExceptReport ==
    /\ state = "Raised"
    /\ Handler(exc.kind) \in {"report", "report+traceback"}
    /\ log' = Append(log, Message(exc))
    /\ tracebacks' = IF Handler(exc.kind) = "report+traceback" THEN tracebacks + 1 ELSE tracebacks
    /\ state' = "Done"
    /\ outcome' = "returned"
    /\ UNCHANGED <<argv, argv0, pathLen, exc, depth, executed, modStatus, provVars>>
    /\ UNCHANGED hostVars

\* except (InvalidServiceError, RSDRequiredError) as e
ExceptInvalidServiceOrRSD ==
    /\ state = "Raised"
    /\ Handler(exc.kind) = "retry"
    /\ IF ShouldRetryOverTunneld(exc, argv)
       THEN /\ log' = Append(log, RetryWarning(exc))
            /\ argv' = RetryArgv(argv, exc)
            /\ depth' = depth + 1
            /\ state' = "Running"
            /\ UNCHANGED outcome
       ELSE /\ log' = Append(log, Error(INVALID_SERVICE_MESSAGE, "-"))
            /\ state' = "Done"
            /\ outcome' = "returned"
            /\ UNCHANGED <<argv, depth>>
    /\ UNCHANGED <<argv0, pathLen, exc, tracebacks, executed, modStatus, provVars>>
    /\ UNCHANGED hostVars

\* except NoDeviceSelectedError: return
ExceptNoDeviceSelected ==
    /\ state = "Raised"
    /\ Handler(exc.kind) = "return"
    /\ state' = "Done"
    /\ outcome' = "returned"
    /\ UNCHANGED <<argv, argv0, pathLen, exc, depth, log, tracebacks, executed>>
    /\ UNCHANGED <<modStatus, provVars>>
    /\ UNCHANGED hostVars

\* except BrokenPipeError: traceback.print_exc()
ExceptBrokenPipe ==
    /\ state = "Raised"
    /\ Handler(exc.kind) = "traceback"
    /\ tracebacks' = tracebacks + 1
    /\ state' = "Done"
    /\ outcome' = "returned"
    /\ UNCHANGED <<argv, argv0, pathLen, exc, depth, log, executed, modStatus, provVars>>
    /\ UNCHANGED hostVars

\* No clause matches: the exception leaves main() and every main() frame
\* below it (a nested main() is called from inside an except body).
Propagate ==
    /\ state = "Raised"
    /\ Handler(exc.kind) = "propagate"
    /\ state' = "Done"
    /\ outcome' = "propagated"
    /\ UNCHANGED <<argv, argv0, pathLen, exc, depth, log, tracebacks, executed>>
    /\ UNCHANGED <<modStatus, provVars>>
    /\ UNCHANGED hostVars

Next ==
    \/ CliSucceeds
    \/ CliRaises
    \/ CliUsageError
    \/ CliLoadError
    \/ CliRecursionError
    \/ ExceptReport
    \/ ExceptInvalidServiceOrRSD
    \/ ExceptNoDeviceSelected
    \/ ExceptBrokenPipe
    \/ Propagate

Spec == Init /\ [][Next]_vars

\* main() runs on one thread and each cli() call returns or raises.
FairSpec == Spec /\ WF_vars(Next)

(* ---------------------------------------------------------------------- *)
(* The command groups used from the threads of an embedding host            *)
(* ---------------------------------------------------------------------- *)

\* The number of calls made on all groups together.
TotalCalls(cl) ==
    LET Sum[i \in 0..Len(GroupNames)] == IF i = 0 THEN 0 ELSE Sum[i - 1] + cl[GroupNames[i]]
    IN Sum[Len(GroupNames)]

\* The groups as registered under cli, main() not running.
ProviderInit ==
    /\ GroupsInit
    /\ HostInit
    /\ locking \in BOOLEAN
    /\ argv = <<Prog>>
    /\ argv0 = argv
    /\ pathLen = 0
    /\ state = "Idle"
    /\ exc = NoExc
    /\ depth = 0
    /\ log = <<>>
    /\ tracebacks = 0
    /\ outcome = "-"
    /\ executed = 0

\* Variant: the listing takes each help text from the imported group.
EnumerateFromImplementations ==
    /\ state = "Idle"
    /\ listing = <<>>
    /\ listing' = [i \in DOMAIN GroupNames |->
                      <<GroupNames[i], CLI_GROUPS[GroupNames[i]].short_help>>]
    /\ cache' = [g \in Groups |-> Ref(ModuleOf(g), AttrOf(g), 1)]
    /\ getterRuns' = [g \in Groups |-> getterRuns[g] + 1]
    /\ UNCHANGED <<dispVars, modStatus, sysModules, loads, calls, tcall, locking, lock, observed>>

\* cli.list_commands and the short help of each name, as the help listing
\* reads them: the names registered under cli and the short_help each
\* Pmd3Cli was constructed with.
Enumerate ==
    /\ state = "Idle"
    /\ listing = <<>>
    /\ listing' = [i \in DOMAIN GroupNames |->
                      <<GroupNames[i], CLI_GROUPS[GroupNames[i]].short_help>>]
    /\ UNCHANGED <<dispVars, modStatus, provVars, tcall, locking, lock, observed>>

\* A thread calls get_command(ctx, name) or list_commands(ctx) of group g.
StartCall(t) ==
    /\ state = "Idle"
    /\ tcall[t].pc = "idle"
    /\ TotalCalls(calls) < MaxCalls
    /\ \E g \in Groups, c \in ({<<"list_commands", "-">>} \cup {<<"get_command", n>> : n \in CmdNames}) :
          tcall' = [tcall EXCEPT ![t] = [IdleCall EXCEPT !.pc = "get", !.g = g,
                                                        !.op = c[1], !.name = c[2]]]
    /\ calls' = [calls EXCEPT ![tcall'[t].g] = @ + 1]
    /\ UNCHANGED <<dispVars, modStatus, cache, sysModules, loads, getterRuns,
                   locking, lock, observed, listing>>

\* cached_property.__get__: the slot of the instance is read; a value found
\* there is returned, otherwise the getter is to run (under the lock of the
\* descriptor where the interpreter's cached_property has one).
CachedGet(t) ==
    /\ tcall[t].pc = "get"
    /\ LET c == tcall[t]
       IN tcall' = [tcall EXCEPT ![t] =
                       IF cache[c.g] # NotFound
                       THEN [c EXCEPT !.pc = "delegate", !.val = cache[c.g]]
                       ELSE [c EXCEPT !.pc = IF locking THEN "lock" ELSE "getter"]]
    /\ UNCHANGED <<dispVars, modStatus, provVars, locking, lock, observed, listing>>

\* with self.lock: the slot is read again once the lock is held.
AcquireLock(t) ==
    /\ tcall[t].pc = "lock"
    /\ lock = NoThread
    /\ IF cache[tcall[t].g] # NotFound
       THEN /\ tcall' = [tcall EXCEPT ![t] = [@ EXCEPT !.pc = "delegate",
                                                        !.val = cache[tcall[t].g]]]
            /\ UNCHANGED lock
       ELSE /\ tcall' = [tcall EXCEPT ![t] = [@ EXCEPT !.pc = "getter"]]
            /\ lock' = t
    /\ UNCHANGED <<dispVars, modStatus, provVars, locking, observed, listing>>

\* val = self.func(instance): the body of _impg runs; an exception leaves
\* the call (and releases the lock) with nothing stored.
RunGetter(t) ==
    /\ tcall[t].pc = "getter"
    /\ LET g == tcall[t].g
           b == ImpgBody(g, sysModules, loads, modStatus)
       IN /\ sysModules' = b.sysModules
          /\ loads' = b.loads
          /\ getterRuns' = [getterRuns EXCEPT ![g] = @ + 1]
          /\ IF b.err = "-"
             THEN /\ tcall' = [tcall EXCEPT ![t] = [@ EXCEPT !.pc = "store", !.val = b.val]]
                  /\ UNCHANGED <<cache, lock>>
             ELSE /\ tcall' = [tcall EXCEPT ![t] = [@ EXCEPT !.pc = "idle", !.err = b.err]]
                  /\ cache' = CacheAfterFailure(cache, g, b.err)
                  /\ lock' = IF lock = t THEN NoThread ELSE lock
    /\ UNCHANGED <<dispVars, modStatus, calls, locking, observed, listing>>

\* cache[self.attrname] = val, then the lock (if held) is released.
Store(t) ==
    /\ tcall[t].pc = "store"
    /\ cache' = CacheAfterGet(cache, tcall[t].g, tcall[t].val)
    /\ lock' = IF lock = t THEN NoThread ELSE lock
    /\ tcall' = [tcall EXCEPT ![t] = [@ EXCEPT !.pc = "delegate"]]
    /\ UNCHANGED <<dispVars, modStatus, sysModules, loads, getterRuns, calls,
                   locking, observed, listing>>

\* The call proper, on the value self._impg gave.
Delegate(t) ==
    /\ tcall[t].pc = "delegate"
    /\ observed' = [observed EXCEPT ![tcall[t].g] = @ \cup {tcall[t].val}]
    /\ LET c == tcall[t]
       IN tcall' = [tcall EXCEPT ![t] =
                       IF c.op = "get_command"
                       THEN [c EXCEPT !.pc = "idle", !.cmd = GetCommand(c.val, c.name)]
                       ELSE [c EXCEPT !.pc = "idle", !.names = ListCommands(c.val)]]
    /\ UNCHANGED <<dispVars, modStatus, provVars, locking, lock, listing>>

ProviderNext ==
    \/ Enumerate
    \/ \E t \in Threads : StartCall(t)
    \/ \E t \in Threads : CachedGet(t)
    \/ \E t \in Threads : AcquireLock(t)
    \/ \E t \in Threads : RunGetter(t)
    \/ \E t \in Threads : Store(t)
    \/ \E t \in Threads : Delegate(t)

ProviderSpec == ProviderInit /\ [][ProviderNext]_vars

TypeOK ==
    /\ state \in {"Running", "Raised", "Done", "Idle"}
    /\ depth \in 0..RecursionLimit
    /\ tracebacks \in 0..1
    /\ outcome \in {"-", "success", "returned", "propagated", "usage_error"}
    /\ executed \in 0..RecursionLimit
    /\ \A g \in Groups : cache[g] \in {NotFound, Ref(ModuleOf(g), AttrOf(g), 1)}
    /\ state = "Idle" => TotalCalls(calls) \in 0..MaxCalls
    /\ lock \in Threads \cup {NoThread}
    /\ Len(argv) = Len(argv0) + 2 * depth

(* ---------------------------------------------------------------------- *)
(* Properties                                                               *)
(* ---------------------------------------------------------------------- *)

\* Number of log records with text m.
CountMsg(l, m) == Cardinality({i \in DOMAIN l : l[i].msg = m})

\* The tokens of the original argv that name the group and subcommands.
CommandPath == SubSeq(argv0, 2, 1 + pathLen)

\* The records logger received in this step.
Emitted == SubSeq(log', Len(log) + 1, Len(log'))

RetriedAsDeveloperCommand ==
    CountMsg(log, "Trying again over tunneld since it is a developer command") > 0

\* C1: main() re-invokes itself at most once per top-level invocation, also
\* when the re-invoked command fails again with RSDRequiredError.
C1_AtMostOneReinvocation == depth <= 1

C3_RsdAlwaysRetries ==
    [][ (state = "Raised" /\ exc.kind = "RSDRequiredError")
        => /\ argv' = argv \o <<"--tunnel", exc.identifier>>
           /\ state' = "Running"
           /\ depth' = depth + 1
           /\ \A i \in DOMAIN Emitted : Emitted[i].msg # INVALID_SERVICE_MESSAGE
           /\ CountMsg(log', INVALID_SERVICE_MESSAGE) = 0 ]_vars

C3_Witness ==
    /\ state = "Running"
    /\ depth = 1
    /\ exc.kind = "RSDRequiredError"
    /\ ~InArgv("developer", argv0)
    /\ InArgv("--tunnel", argv0)
    /\ argv = argv0 \o <<"--tunnel", exc.identifier>>

\* C4: on InvalidServiceError with identifier I set, "developer" in argv and
\* "--tunnel" not in argv, main() retries and the argv of the re-invocation
\* is the original argv followed by "--tunnel" and I.
C4_InvalidServiceRetryArgv ==
    [][ ( /\ state = "Raised"
          /\ exc.kind = "InvalidServiceError"
          /\ exc.identifier # None
          /\ InArgv("developer", argv)
          /\ ~InArgv("--tunnel", argv) )
        => /\ state' = "Running"
           /\ depth' = depth + 1
           /\ argv' = argv0 \o <<"--tunnel", exc.identifier>> ]_vars

C4_Witness ==
    /\ state = "Running"
    /\ exc.kind = "InvalidServiceError"
    /\ argv0 = <<Prog, "developer", "dvt", "ls">>
    /\ argv = <<Prog, "developer", "dvt", "ls", "--tunnel", "UDID1">>

\* C5: on InvalidServiceError a retry is chosen only if the failure carries
\* an identifier (the optional field is not None), the original command path
\* (group and subcommand tokens, not argument values) includes "developer",
\* and "--tunnel" is not in argv.
C5_RetryOnlyIfAllThree ==
    [][ (state = "Raised" /\ exc.kind = "InvalidServiceError" /\ state' = "Running")
        => /\ exc.identifier # None
           /\ InArgv("developer", CommandPath)
           /\ ~InArgv("--tunnel", argv) ]_vars

\* C6: on InvalidServiceError with "developer" not in argv main() logs
\* INVALID_SERVICE_MESSAGE exactly once, does not re-invoke itself, leaves
\* argv unchanged and is Done.
C6_InvalidServiceReported ==
    [][ ( /\ state = "Raised"
          /\ exc.kind = "InvalidServiceError"
          /\ ~InArgv("developer", argv) )
        => /\ Emitted = <<Error(INVALID_SERVICE_MESSAGE, "-")>>
           /\ CountMsg(log', INVALID_SERVICE_MESSAGE) = 1
           /\ argv' = argv
           /\ depth' = depth
           /\ state' = "Done" ]_vars

C6_Witness ==
    /\ state = "Done"
    /\ exc.kind = "InvalidServiceError"
    /\ exc.identifier # None
    /\ ~InArgv("developer", argv)
    /\ ~InArgv("--tunnel", argv)
    /\ CountMsg(log, INVALID_SERVICE_MESSAGE) = 1

\* C7: after a retry triggered by InvalidServiceError argv contains
\* "--tunnel" and no InvalidServiceError satisfies the retry predicate any
\* more: a second InvalidServiceError is reported with
\* INVALID_SERVICE_MESSAGE and main() is Done, with no further retry.
C7_NoSecondInvalidServiceRetry ==
    [][ (state = "Raised" /\ exc.kind = "InvalidServiceError" /\ RetriedAsDeveloperCommand)
        => /\ InArgv("--tunnel", argv)
           /\ Emitted = <<Error(INVALID_SERVICE_MESSAGE, "-")>>
           /\ argv' = argv
           /\ depth' = depth
           /\ state' = "Done" ]_vars

C7_Witness ==
    /\ state = "Done"
    /\ exc.kind = "InvalidServiceError"
    /\ exc.identifier # None
    /\ RetriedAsDeveloperCommand
    /\ depth = 1
    /\ log[Len(log)] = Error(INVALID_SERVICE_MESSAGE, "-")

\* C8: on NoDeviceSelectedError main() logs nothing, does not retry, leaves
\* argv unchanged and returns normally.
C8_NoDeviceSelectedSilent ==
    [][ (state = "Raised" /\ exc.kind = "NoDeviceSelectedError")
        => /\ log' = log
           /\ tracebacks' = tracebacks
           /\ argv' = argv
           /\ depth' = depth
           /\ state' = "Done"
           /\ outcome' = "returned" ]_vars

C8_Witness ==
    /\ state = "Done"
    /\ exc.kind = "NoDeviceSelectedError"
    /\ outcome = "returned"
    /\ log = <<>>

\* The classes of the failure kinds whose retry decision is never.
NeverRetryKinds ==
    { "NoDeviceConnectedError", "ConnectionAbortedError", "NotPairedError",
      "UserDeniedPairingError", "PairingDialogResponsePendingError",
      "SetProhibitedError", "MissingValueError", "DeviceHasPasscodeSetError",
      "DeveloperModeError", "ConnectionFailedToUsbmuxdError",
      "MessageNotSupportedError", "InternalError",
      "DeveloperModeIsNotEnabledError", "PasswordRequiredError",
      "AccessDeniedError", "TunneldConnectionError", "DeviceNotFoundError",
      "DeprecationError", "OSNotSupportedError", "FeatureNotSupportedError" }

C10_UnclassifiedPropagates ==
    [][ (state = "Raised" /\ exc.kind \in OtherKinds)
        => /\ state' = "Done"
           /\ outcome' = "propagated"
           /\ log' = log
           /\ tracebacks' = tracebacks
           /\ argv' = argv
           /\ depth' = depth ]_vars

C10_Witness ==
    /\ state = "Done"
    /\ exc.kind = "KeyError"
    /\ outcome = "propagated"
    /\ depth = 1

\* Threads inside a call on g that have not yet run the getter.
BeforeGetter(g) == {t \in Threads : tcall[t].g = g /\ tcall[t].pc \in {"get", "lock", "getter"}}

\* Thread t is back from a call that self._impg served with a value.
Served(t) == tcall[t].pc = "idle" /\ tcall[t].val # NotFound

\* Thread t is back from a call that the getter ended with an exception.
Failed(t) == tcall[t].pc = "idle" /\ tcall[t].err # "-"

\* x is the beginning of y.
IsPrefix(x, y) == Len(x) <= Len(y) /\ SubSeq(y, 1, Len(x)) = x

\* C11: after any sequence of list_commands and get_command calls on a
\* group, every call saw the one implementation reference that the first
\* call resolved and that sits in the slot, a populated slot never changes,
\* and the module of a resolved group was executed exactly once.
C11_SingleCachedImplementation ==
    [][ \A g \in Groups :
          /\ cache[g] # NotFound => cache'[g] = cache[g]
          /\ observed'[g] \subseteq ({cache'[g]} \ {NotFound})
          /\ (observed'[g] # {} \/ cache'[g] # NotFound) => loads'[ModuleOf(g)] = 1 ]_vars

C11_Witness ==
    \E g \in Groups :
        /\ calls[g] >= 2
        /\ getterRuns[g] = 1
        /\ observed[g] = {cache[g]}
        /\ \A t \in Threads : Served(t) /\ tcall[t].g = g

\* C12: constructing the groups and enumerating the registry resolve
\* nothing: the slot of a group is empty, and its getter has not run, in
\* every state before the first list_commands or get_command call on it.
C12_NoResolutionBeforeFirstCall ==
    \A g \in Groups : calls[g] = 0 => (cache[g] = NotFound /\ getterRuns[g] = 0)

C12_Witness ==
    /\ listing # <<>>
    /\ \E g, h \in Groups : calls[g] = 0 /\ cache[g] = NotFound /\ cache[h] # NotFound

\* C13 as stated: get_command returns the command of the requested name
\* when the group has it, and the single command of the group when the name
\* is not found and the group has exactly one command.
C13_GetCommandFallback ==
    \A t \in Threads :
        (Served(t) /\ tcall[t].op = "get_command")
        => LET cmds == ImplCommands[tcall[t].g]
           IN /\ tcall[t].name \in cmds => tcall[t].cmd = tcall[t].name
              /\ (tcall[t].name \notin cmds /\ Cardinality(cmds) = 1) => tcall[t].cmd \in cmds

\* C13 as amended: get_command returns the command of the requested name
\* when the group has it and absent when it has not, also when the group
\* has exactly one command.
C13_GetCommandNoFallback ==
    \A t \in Threads :
        (Served(t) /\ tcall[t].op = "get_command")
        => LET cmds == ImplCommands[tcall[t].g]
           IN /\ tcall[t].name \in cmds => tcall[t].cmd = tcall[t].name
              /\ tcall[t].name \notin cmds => tcall[t].cmd = Absent

C13_Witness ==
    \E t \in Threads :
        /\ Served(t)
        /\ tcall[t].op = "get_command"
        /\ tcall[t].g = "developer"
        /\ tcall[t].name = "ls"
        /\ tcall[t].cmd = Absent

\* C14: when several threads call list_commands or get_command on the same
\* unresolved group, the getter runs exactly once under every interleaving
\* and all callers see the same cached reference.
C14_ExactlyOneResolution ==
    \A g \in Groups :
        modStatus[ModuleOf(g)] = "ok"
        => /\ getterRuns[g] <= 1
           /\ Cardinality(observed[g]) <= 1

\* C15: resolving one group leaves the slot of every other group as it was:
\* running a command of group G resolves at most the group G.
C15_OnlyTheGroupOfTheCommand ==
    [][ \A g \in Groups :
          /\ cache'[g] # cache[g] => g = argv[2]
          /\ cache'[g] # NotFound => g = argv0[2] ]_vars

C15_Witness ==
    /\ state = "Done"
    /\ executed >= 1
    /\ cache["afc"] # NotFound
    /\ \A g \in Groups \ {"afc"} : cache[g] = NotFound /\ getterRuns[g] = 0

\* C16: when the module of the group cannot be imported or lacks the
\* attribute, resolution fails with ImportError or AttributeError, which is
\* fatal: main() has no clause for it, logs nothing, does not retry, and no
\* command of the group is invoked.
C16_LoadErrorIsFatal ==
    [][ (state # "Idle" /\ argv[2] \in Groups /\ modStatus[ModuleOf(argv[2])] # "ok")
        => /\ executed' = 0
           /\ log' = <<>>
           /\ depth' = 0
           /\ argv' = argv
           /\ state = "Running"
              => (state' = "Raised" /\ exc'.kind \in {"ImportError", "AttributeError"})
           /\ state = "Raised" => (state' = "Done" /\ outcome' = "propagated") ]_vars

C16_Witness ==
    /\ state = "Done"
    /\ outcome = "propagated"
    /\ exc.kind = "AttributeError"
    /\ modStatus[ModuleOf(argv[2])] = "no_attr"
    /\ executed = 0

\* C17: a group name that is not registered fails with a usage error: no
\* group is resolved, no command is invoked, and every invocation with that
\* name ends the same way.
C17_UnknownGroupFails ==
    argv0[2] \notin Groups
    => /\ \A g \in Groups : cache[g] = NotFound /\ getterRuns[g] = 0
       /\ executed = 0
       /\ depth = 0
       /\ log = <<>>
       /\ state \in {"Idle", "Running", "Done"}
       /\ state = "Done" => outcome = "usage_error"

C17_Witness ==
    /\ state = "Done"
    /\ argv0[2] = "pcap"
    /\ outcome = "usage_error"

\* C18: within one top-level invocation argv changes only by a retry
\* appending the two elements "--tunnel" and the identifier: the original
\* argv stays a prefix of argv and the length of argv is the original
\* length plus twice the number of re-invocations.
C18_ArgvOnlyGrowsByRetry ==
    [][ /\ IsPrefix(argv0, argv')
        /\ Len(argv') = Len(argv0) + 2 * depth'
        /\ argv' # argv
           => /\ depth' = depth + 1
              /\ \E id \in IdValues : argv' = argv \o <<"--tunnel", id>>
        /\ depth' # depth => argv' # argv ]_vars

C18_Witness ==
    /\ depth = 2
    /\ Len(argv) = Len(argv0) + 4
    /\ argv[Len(argv0) + 1] = "--tunnel"
    /\ argv[Len(argv0) + 3] = "--tunnel"

\* C19: every identifier a retry appends to argv is present: main() never
\* re-invokes itself with None after "--tunnel", for RSDRequiredError and
\* for InvalidServiceError.
C19_AppendedIdentifierPresent ==
    [][ depth' = depth + 1
        => /\ argv'[Len(argv') - 1] = "--tunnel"
           /\ argv'[Len(argv')] # None ]_vars

\* C20: a failed resolution leaves the slot empty, and every call on that
\* group ran the getter again instead of being served from the slot.
C20_FailureNotCached ==
    \A t \in Threads :
        Failed(t)
        => LET g == tcall[t].g
           IN /\ cache[g] = NotFound
              /\ observed[g] = {}
              /\ getterRuns[g] = calls[g] - Cardinality(BeforeGetter(g))

C20_Witness ==
    \E t \in Threads :
        /\ Failed(t)
        /\ getterRuns[tcall[t].g] >= 2
        /\ cache[tcall[t].g] = NotFound
        /\ \A u \in Threads : tcall[u].pc = "idle"

====
